---- MODULE Spec2Model ----
(***************************************************************************)
(* FilesInOrden: the concurrent classify-and-move engine of                *)
(* FileOrganizerGUI (src/FilesInOrden.py): organize_files with its pool of *)
(* process_single_file workers, process_results, and the undo ledger.      *)
(*                                                                         *)
(* The filesystem is a function from paths to file contents. A file name   *)
(* is kept as base, "_N" suffixes and extension, so that the renaming of   *)
(* the conflict policy (f"{base_name}_{counter}{ext}") is computed on the  *)
(* name and "report_1.pdf" written by the program equals a "report_1.pdf"  *)
(* the user put there.                                                     *)
(***************************************************************************)
EXTENDS Integers, Sequences, FiniteSets, TLC

VARIABLES
    fs,               \* path -> file, the regular files on disk
    dirs,             \* the folders that exist under the organized directory
    dir_entry,        \* self.dir_entry.get(): the directory the GUI points at
    dir_access,       \* what os.path.isdir / os.access say about that directory
    profiles,         \* self.profiles: profile name -> [directory, formatos, schedule]
    current_profile,  \* self.current_profile
    format_tree,      \* the rows (ext, folder) of self.format_tree
    undo_stack,       \* self.undo_stack, deque(maxlen=5) of batches
    runs,             \* run id -> one organize_files call (its thread)
    undo,             \* the undo_last call in progress, or the last one
    running,          \* self.running
    stop_event,       \* thread_manager.stop_event
    threads,          \* thread name -> the position of its _thread_wrapper
    budget            \* what the environment may still do (triggers, I/O faults, file drops)

\* the settings side of the window
gui == <<dir_entry, dir_access, profiles, current_profile, format_tree>>

\* the flags of the application's life and its supervised threads
life == <<running, stop_event, threads>>

vars == <<fs, dirs, gui, life, undo_stack, runs, undo, budget>>

(***************************************************************************)
(* Bounds of the model.                                                    *)
(***************************************************************************)
\* files in the directory at the start
MaxFiles == 2
\* organize triggers in one behaviour, one run at a time
MaxRuns == 1
\* I/O faults the environment injects in one behaviour
MaxFaults == 1
\* organize triggers (and files dropped) in the ledger scenario
LedgerRuns == 6
\* organize triggers in one behaviour, runs overlapping
OverlapRuns == 2
\* files in the directory at the start when runs overlap
OverlapFiles == 1
\* files in the directory at the start of the intake scenario
IntakeFiles == 2
\* organize triggers in the intake scenario
IntakeRuns == 1
\* files in the directory at the start of the fault scenario
FaultFiles == 1
\* I/O faults the environment injects in one behaviour of the fault scenario
FaultBudget == 2
\* files in the directory at the start of the policy scenario
PolicyFiles == 2
\* direct calls of process_single_file in the policy scenario
PolicyCalls == 2
\* invocations of a thread's target after an exception that are counted
RestartCap == 2
\* files in the directory at the start of the profile scenario
ProfileFiles == 1
\* organize triggers in the profile scenario
ProfileRuns == 1
\* things the user does in the settings (add a rule, save, switch, import) in one behaviour
ProfileEdits == 3

(***************************************************************************)
(* Program constants.                                                      *)
(***************************************************************************)
max_workers == 4
undo_maxlen == 5
MaxFileSize == 100 * 1024 * 1024

(***************************************************************************)
(* Names, paths and files.                                                 *)
(***************************************************************************)
Root == "D"

Name(b, s, e) == [base |-> b, suf |-> s, ext |-> e]

\* os.path.join(directory, filename), os.path.join(dest_dir, filename)
join(d, n) == [dir |-> d, name |-> n, tmp |-> FALSE]

\* dest_path + ".tmp"
TempPath(p) == [p EXCEPT !.tmp = TRUE]

\* f"{base_name}_{counter}{ext}" with base_name, ext = os.path.splitext(filename)
NewName(filename, counter) == [filename EXCEPT !.suf = Append(@, counter)]

\* str.lower() on an extension
Lower(s) ==
    CASE s = ".PDF" -> ".pdf"
      [] s = ".JPG" -> ".jpg"
      [] s = ".TXT" -> ".txt"
      [] s = ".XYZ" -> ".xyz"
      [] OTHER -> s

File(d, sz, mg) == [data |-> d, size |-> sz, magic |-> mg, mode |-> "rw", open |-> FALSE]

\* shutil.copy2: the bytes and the permission bits; the copy is open in no process
copy2(f) == [f EXCEPT !.open = FALSE]

\* a copy whose bytes differ from the source's (a fault of the disk or the transfer)
Corrupt(f) == [f EXCEPT !.data = @ + 100, !.open = FALSE]

\* hashlib.sha256 over the bytes of the file: equal exactly for equal bytes
sha256(f) == <<"sha256", f.data, f.size, f.magic>>

exists(p) == p \in DOMAIN fs

isdir(p) == p.dir = Root /\ ~p.tmp /\ p.name.suf = <<>> /\ p.name.ext = "" /\ p.name.base \in dirs

Write(p, f) == [q \in DOMAIN fs \cup {p} |-> IF q = p THEN f ELSE fs[q]]

Remove(p) == [q \in DOMAIN fs \ {p} |-> fs[q]]

\* os.rename(a, b) and shutil.move(a, b) inside one filesystem: b is replaced
Rename(a, b) == [q \in (DOMAIN fs \ {a}) \cup {b} |-> IF q = b THEN fs[a] ELSE fs[q]]

(***************************************************************************)
(* The rule table.                                                         *)
(***************************************************************************)
default_formats ==
    [e \in {".jpg", ".png", ".ico", ".mp4", ".avi", ".mpg", ".mp3", ".pdf",
            ".docx", ".doc", ".txt", ""} |->
        CASE e \in {".jpg", ".png"} -> "Fotos"
          [] e = ".ico" -> "Iconos"
          [] e \in {".mp4", ".avi", ".mpg"} -> "Videos"
          [] e = ".mp3" -> "Musica"
          [] e = ".pdf" -> "PDFs"
          [] e \in {".docx", ".doc"} -> "Documentos_work"
          [] e = ".txt" -> "Documentos_txt"
          [] OTHER -> "Otros"]

\* dict.get(key, default)
Get(tbl, k, default) == IF k \in DOMAIN tbl THEN tbl[k] ELSE default

formatos == profiles[current_profile].formatos

\* self.profiles[self.current_profile]["formatos"].get(ext, "Otros")
FolderOf(filename) == Get(formatos, Lower(filename.ext), "Otros")

(***************************************************************************)
(* validate_file                                                           *)
(***************************************************************************)
SIGNATURES == {".jpg", ".png", ".pdf", ".docx"}

\* header.startswith(sig) for the signature of ext
_validate_file_signature(f, ext) == ext \notin SIGNATURES \/ f.magic = ext

IsSystemName(filename) == filename.base \in {"~$", "Thumbs", ".DS_Store", "desktop"}

\* validate_file without the test file_size == 0
validate_file_any_size(p) ==
    /\ exists(p)
    /\ fs[p].mode = "rw"
    /\ ~fs[p].open
    /\ ~IsSystemName(p.name)
    /\ fs[p].size <= MaxFileSize
    /\ _validate_file_signature(fs[p], Lower(p.name.ext))

validate_file(p) ==
    /\ exists(p)                                  \* os.path.isfile
    /\ fs[p].mode = "rw"                          \* os.access(R_OK), else PermissionError -> False
    /\ ~fs[p].open                                \* lsof / exclusive open
    /\ ~IsSystemName(p.name)
    /\ fs[p].size # 0
    /\ fs[p].size <= MaxFileSize
    /\ _validate_file_signature(fs[p], Lower(p.name.ext))  \* IntegrityError -> False

(***************************************************************************)
(* The files of the scenarios.                                             *)
(***************************************************************************)
ReportPdf == Name("report", <<>>, ".pdf")
Report1Pdf == Name("report", <<1>>, ".pdf")
BTxt == Name("b", <<>>, ".txt")

Universe == {ReportPdf, Report1Pdf, BTxt}

\* the files of the intake scenario: a zero-byte file, an extension without a
\* rule, a .pdf without the %PDF header, an upper-case extension, no extension
EmptyTxt == Name("empty", <<>>, ".txt")
DataXyz == Name("data", <<>>, ".xyz")
FakePdf == Name("fake", <<>>, ".pdf")
ScanPDF == Name("SCAN", <<>>, ".PDF")
Readme == Name("README", <<>>, "")

IntakeUniverse == {ReportPdf, EmptyTxt, DataXyz, FakePdf, ScanPDF, Readme}

InitialFile(n) ==
    CASE n = ReportPdf -> File(1, 10, ".pdf")
      [] n = Report1Pdf -> File(2, 10, ".pdf")
      [] n = EmptyTxt -> File(4, 0, "")
      [] n = DataXyz -> File(5, 10, "")
      [] n = FakePdf -> File(6, 10, "")
      [] n = ScanPDF -> File(7, 10, ".pdf")
      [] n = Readme -> File(8, 10, "")
      [] OTHER -> File(3, 10, "")

\* a report.pdf that an earlier session left in the PDFs folder
OldReport == File(9, 10, ".pdf")

DroppedFile(k) == File(10 + k, 10, ".pdf")

\* a file named report.pdf.tmp that was in the PDFs folder before the run
StaleTemp == File(30, 10, "")

(***************************************************************************)
(* Tasks (one process_single_file call) and runs (one organize_files call).*)
(***************************************************************************)
NoHash == <<>>

NewTask(e) ==
    [pc |-> "queued", original_hash |-> NoHash, dest_dir |-> Root,
     dest_path |-> join(Root, e), counter |-> 0, result |-> "pending", why |-> "", faulted |-> FALSE,
     cleanup_error |-> FALSE, conflict_resolution |-> "rename"]

Task(r, e) == runs[r].tasks[e]

Active(r) == runs[r].pc # "returned"

Idle == (\A r \in DOMAIN runs : ~Active(r)) /\ ~undo.active

Running(r) == {e \in runs[r].entries : Task(r, e).pc \notin {"queued", "done"}}

\* the I/O outcomes the environment may produce: faults only while it has some left
IO(outcomes) == IF budget.faults > 0 THEN outcomes ELSE {"ok"}

Spend(io) == IF io = "ok" THEN budget ELSE [budget EXCEPT !.faults = @ - 1]

\* return None (skipped or failed) or return (src_path, dest_path)
Done(t, res, reason) == [t EXCEPT !.pc = "done", !.result = res, !.why = reason]

\* an exception inside the inner try of step 7: the cleanup handler runs next
Fail(t, reason, injected) ==
    [t EXCEPT !.pc = "cleanup", !.why = reason, !.faulted = @ \/ injected]

SetTask(r, e, t) == runs' = [runs EXCEPT ![r].tasks[e] = t]

(***************************************************************************)
(* Initial states.                                                         *)
(***************************************************************************)
\* no undo_last call so far; log holds what a call wrote with self.log
NoUndo == [active |-> FALSE, batch |-> <<>>, i |-> 0, log |-> <<>>, found |-> "none"]

\* the profile load_profiles creates when there is no profiles.json: no "schedule" key
DefaultProfile == [directory |-> "", formatos |-> default_formats, schedule |-> FALSE]

\* dict.items() of a table in a fixed order
RECURSIVE RowsOf(_, _)
RowsOf(tbl, keys) ==
    IF keys = {} THEN <<>>
    ELSE LET k == CHOOSE x \in keys : TRUE
         IN <<<<k, tbl[k]>>>> \o RowsOf(tbl, keys \ {k})

\* update_format_tree: one row per item of the table
Rows(tbl) == RowsOf(tbl, DOMAIN tbl)

InitFs(present, old) ==
    [p \in {join(Root, n) : n \in present} \cup (IF old THEN {join("PDFs", ReportPdf)} ELSE {}) |->
        IF p.dir = Root THEN InitialFile(p.name) ELSE OldReport]

\* init_threads: the two supervised threads, each at the test of its wrapper loop
ThreadNames == {"TaskProcessor", "Scheduler"}

NewThread == [pc |-> "while", active |-> FALSE, error |-> FALSE, restarts |-> 0]

\* the window after __init__ and load_profiles without a profiles.json
InitWindow ==
    /\ running = TRUE
    /\ stop_event = FALSE
    /\ threads = [n \in ThreadNames |-> NewThread]
    /\ profiles = [n \in {"default"} |-> DefaultProfile]
    /\ format_tree = Rows(default_formats)
    /\ current_profile = "default"
    /\ undo_stack = <<>>
    /\ runs = <<>>
    /\ undo = NoUndo

InitCommon ==
    /\ dir_entry = Root
    /\ dir_access = "rw"
    /\ InitWindow

InitDirectory(files) ==
    \E present \in SUBSET Universe, old \in BOOLEAN :
        /\ Cardinality(present) <= files
        /\ fs = InitFs(present, old)
        /\ dirs = IF old THEN {"PDFs"} ELSE {}

\* one run at a time
Init ==
    /\ InitCommon
    /\ InitDirectory(MaxFiles)
    /\ budget = [runs |-> MaxRuns, faults |-> MaxFaults, drops |-> 0, edits |-> 0]

\* the ledger scenario: the user drops a new report.pdf after each run
InitLedger ==
    /\ InitCommon
    /\ fs = InitFs({ReportPdf}, FALSE)
    /\ dirs = {}
    /\ budget = [runs |-> LedgerRuns, faults |-> MaxFaults, drops |-> LedgerRuns, edits |-> 0]

\* triggers while a run is in progress
InitOverlap ==
    /\ InitCommon
    /\ InitDirectory(OverlapFiles)
    /\ budget = [runs |-> OverlapRuns, faults |-> MaxFaults, drops |-> 0, edits |-> 0]

\* the fault scenario: one run, an I/O error in a move and another in its handler
InitFaults ==
    /\ InitCommon
    /\ InitDirectory(FaultFiles)
    /\ budget = [runs |-> MaxRuns, faults |-> FaultBudget, drops |-> 0, edits |-> 0]

\* the directory of Init with a report.pdf.tmp in its PDFs folder
InitStale ==
    /\ InitCommon
    /\ \E present \in SUBSET Universe, old \in BOOLEAN :
          /\ Cardinality(present) <= MaxFiles
          /\ fs = [p \in DOMAIN InitFs(present, old) \cup {TempPath(join("PDFs", ReportPdf))} |->
                     IF p.tmp THEN StaleTemp ELSE InitFs(present, old)[p]]
    /\ dirs = {"PDFs"}
    /\ budget = [runs |-> MaxRuns, faults |-> MaxFaults, drops |-> 0, edits |-> 0]

\* the thread scenario: an empty directory, nothing to organize
InitThreads ==
    /\ InitCommon
    /\ fs = InitFs({}, FALSE)
    /\ dirs = {}
    /\ budget = [runs |-> 0, faults |-> 0, drops |-> 0, edits |-> 0]

\* the policy scenario: process_single_file called with each conflict policy
InitPolicy ==
    /\ InitCommon
    /\ InitDirectory(PolicyFiles)
    /\ budget = [runs |-> PolicyCalls, faults |-> 0, drops |-> 0, edits |-> 0]

\* the intake scenario: any directory state, files that validation and the
\* rule table treat specially
InitIntake ==
    /\ InitWindow
    /\ dir_entry \in {Root, ""}
    /\ dir_access \in {"rw", "r", "missing"}
    /\ \E present \in SUBSET IntakeUniverse, old \in BOOLEAN :
          /\ Cardinality(present) <= IntakeFiles
          /\ dir_access = "missing" => (present = {} /\ ~old)
          /\ fs = InitFs(present, old)
          /\ dirs = IF old THEN {"PDFs"} ELSE {}
    /\ budget = [runs |-> IntakeRuns, faults |-> MaxFaults, drops |-> 0, edits |-> 0]

\* the profile scenario: the user edits rules and profiles while files are organized
InitProfiles ==
    /\ InitCommon
    /\ \E present \in SUBSET {ReportPdf, DataXyz} :
          /\ Cardinality(present) <= ProfileFiles
          /\ fs = InitFs(present, FALSE)
    /\ dirs = {}
    /\ budget = [runs |-> ProfileRuns, faults |-> 0, drops |-> 0, edits |-> ProfileEdits]

(***************************************************************************)
(* start_organization and the head of organize_files: the thread is        *)
(* started, the directory validated and listed, every entry submitted.     *)
(***************************************************************************)
\* validate_directory that only asks os.path.isdir
validate_directory_isdir_only(d) == d = Root /\ dir_access # "missing"

\* os.path.isdir(directory) and os.access(directory, os.R_OK | os.W_OK)
validate_directory(d) == d = Root /\ dir_access = "rw"

\* [f for f in os.listdir(directory) if not f.startswith(".")]
safe_listdir ==
    {p.name : p \in {q \in DOMAIN fs : q.dir = Root}} \cup {Name(d, <<>>, "") : d \in dirs}

\* an empty dir_entry is reported by start_organization itself; an invalid
\* directory raises in organize_files, whose handler reports it
start_organization ==
    /\ budget.runs > 0
    /\ budget' = [budget EXCEPT !.runs = @ - 1]
    /\ LET kept == {r \in DOMAIN runs : Active(r)}
           id == budget.runs
           valid == dir_entry # "" /\ validate_directory(dir_entry)
           entries == IF valid THEN safe_listdir ELSE {}
           new == [pc |-> IF valid THEN "pool" ELSE "returned",
                   entries |-> entries,
                   tasks |-> [e \in entries |-> NewTask(e)],
                   collected |-> {},
                   moved_files |-> <<>>,
                   errors |-> IF valid THEN 0 ELSE 1,
                   after |-> 0,
                   progress |-> <<>>,
                   table |-> formatos,
                   pre |-> fs]
       IN runs' = [r \in kept \cup {id} |-> IF r = id THEN new ELSE runs[r]]
    \* the locals of an undo_last call that has returned are gone
    /\ undo' = IF undo.active THEN undo
               ELSE NoUndo
    /\ UNCHANGED <<fs, dirs, gui, life, undo_stack>>

(***************************************************************************)
(* process_single_file, one action per filesystem call.                    *)
(***************************************************************************)
\* the values of the parameter conflict_resolution
Policies == {"rename", "skip", "overwrite"}

\* process_single_file(directory, filename, conflict_resolution) called on its
\* own, one call at a time: the call is a run of one task, nothing collects it
process_single_file(filename, conflict_resolution) ==
    /\ budget.runs > 0
    /\ \A r \in DOMAIN runs : \A e \in runs[r].entries : Task(r, e).pc = "done"
    /\ budget' = [budget EXCEPT !.runs = @ - 1]
    /\ LET id == budget.runs
           new == [pc |-> "pool",
                   entries |-> {filename},
                   tasks |-> [e \in {filename} |->
                                [NewTask(e) EXCEPT !.conflict_resolution = conflict_resolution]],
                   collected |-> {},
                   moved_files |-> <<>>,
                   errors |-> 0,
                   after |-> 0,
                   progress |-> <<>>,
                   table |-> formatos,
                   pre |-> fs]
       IN runs' = [r \in DOMAIN runs \cup {id} |-> IF r = id THEN new ELSE runs[r]]
    /\ UNCHANGED <<fs, dirs, gui, life, undo_stack, undo>>

\* psf_validate that goes on to the move steps whatever validate_file says
psf_validate_unchecked(r, e) ==
    LET t == Task(r, e)
        src_path == join(Root, e)
    IN /\ runs[r].pc = "pool"
       /\ t.pc = "queued"
       /\ Cardinality(Running(r)) < max_workers
       /\ SetTask(r, e,
            IF ~exists(src_path) /\ ~isdir(src_path) THEN Done(t, "skipped", "notfound")
            ELSE IF isdir(src_path) THEN Done(t, "skipped", "isdir")
            ELSE [t EXCEPT !.pc = "hash"])
       /\ UNCHANGED <<fs, dirs, gui, life, undo_stack, undo, budget>>

\* steps 1 and 2: os.path.exists, os.path.isdir, validate_file
psf_validate(r, e) ==
    LET t == Task(r, e)
        src_path == join(Root, e)
    IN /\ runs[r].pc = "pool"
       /\ t.pc = "queued"
       /\ Cardinality(Running(r)) < max_workers
       /\ SetTask(r, e,
            IF ~exists(src_path) /\ ~isdir(src_path) THEN Done(t, "skipped", "notfound")
            ELSE IF isdir(src_path) THEN Done(t, "skipped", "isdir")
            ELSE IF ~validate_file(src_path) THEN Done(t, "skipped", "invalid")
            ELSE [t EXCEPT !.pc = "hash"])
       /\ UNCHANGED <<fs, dirs, gui, life, undo_stack, undo, budget>>

\* steps 3 and 4: file_hash(src_path), then the folder of the extension
psf_hash(r, e) ==
    LET t == Task(r, e)
        src_path == join(Root, e)
    IN /\ t.pc = "hash"
       /\ SetTask(r, e,
            IF exists(src_path)
            THEN [t EXCEPT !.pc = "mkdir", !.original_hash = sha256(fs[src_path]),
                           !.dest_dir = FolderOf(e)]
            ELSE Done(t, "failed", "hash_error"))
       /\ UNCHANGED <<fs, dirs, gui, life, undo_stack, undo, budget>>

\* step 5: os.makedirs(dest_dir, exist_ok=True) when the folder is missing
psf_makedirs(r, e) ==
    LET t == Task(r, e)
    IN /\ t.pc = "mkdir"
       /\ \E io \in IF t.dest_dir \in dirs THEN {"ok"} ELSE IO({"ok", "error"}) :
            /\ budget' = Spend(io)
            /\ dirs' = IF io = "ok" THEN dirs \cup {t.dest_dir} ELSE dirs
            /\ SetTask(r, e,
                 IF io = "ok"
                 THEN [t EXCEPT !.pc = "conflict", !.dest_path = join(t.dest_dir, e)]
                 ELSE [Done(t, "failed", "mkdir_error") EXCEPT !.faulted = TRUE])
       /\ UNCHANGED <<fs, gui, life, undo_stack, undo>>

\* psf_conflict without the branch of the policy "skip"
psf_conflict_never_skips(r, e) ==
    LET t == Task(r, e)
    IN /\ t.pc = "conflict"
       /\ SetTask(r, e,
            IF ~exists(t.dest_path) THEN [t EXCEPT !.pc = "copy"]
            ELSE IF t.conflict_resolution = "overwrite"
                 THEN IF fs[t.dest_path].mode = "rw" THEN [t EXCEPT !.pc = "copy"]
                      ELSE Done(t, "skipped", "nowrite")
            ELSE [t EXCEPT !.pc = "loop", !.counter = 1])
       /\ UNCHANGED <<fs, dirs, gui, life, undo_stack, undo, budget>>

\* psf_conflict with the counter of the rename policy starting at 0
psf_conflict_from_zero(r, e) ==
    LET t == Task(r, e)
    IN /\ t.pc = "conflict"
       /\ SetTask(r, e,
            IF ~exists(t.dest_path) THEN [t EXCEPT !.pc = "copy"]
            ELSE [t EXCEPT !.pc = "loop", !.counter = 0])
       /\ UNCHANGED <<fs, dirs, gui, life, undo_stack, undo, budget>>

\* step 6: os.path.exists(dest_path) and the conflict policy
psf_conflict(r, e) ==
    LET t == Task(r, e)
    IN /\ t.pc = "conflict"
       /\ SetTask(r, e,
            IF ~exists(t.dest_path) THEN [t EXCEPT !.pc = "copy"]
            ELSE IF t.conflict_resolution = "skip" THEN Done(t, "skipped", "exists")
            ELSE IF t.conflict_resolution = "overwrite"
                 THEN IF fs[t.dest_path].mode = "rw" THEN [t EXCEPT !.pc = "copy"]
                      ELSE Done(t, "skipped", "nowrite")
            ELSE [t EXCEPT !.pc = "loop", !.counter = 1])
       /\ UNCHANGED <<fs, dirs, gui, life, undo_stack, undo, budget>>

\* one turn of: while os.path.exists(dest_path): dest_path = <base>_<counter><ext>
psf_rename_loop(r, e) ==
    LET t == Task(r, e)
    IN /\ t.pc = "loop"
       /\ SetTask(r, e,
            IF exists(t.dest_path)
            THEN [t EXCEPT !.dest_path = join(t.dest_dir, NewName(e, t.counter)),
                           !.counter = @ + 1]
            ELSE [t EXCEPT !.pc = "copy"])
       /\ UNCHANGED <<fs, dirs, gui, life, undo_stack, undo, budget>>

\* psf_copy with shutil.move in place of shutil.copy2: the source is gone once the temp exists
psf_copy_moving(r, e) ==
    LET t == Task(r, e)
        src_path == join(Root, e)
        temp_path == TempPath(t.dest_path)
    IN /\ t.pc = "copy"
       /\ exists(src_path)
       /\ fs' = [q \in (DOMAIN fs \ {src_path}) \cup {temp_path} |->
                   IF q = temp_path THEN copy2(fs[src_path]) ELSE fs[q]]
       /\ SetTask(r, e, [t EXCEPT !.pc = "verify"])
       /\ UNCHANGED <<dirs, gui, life, undo_stack, undo, budget>>

\* step 7: shutil.copy2(src_path, temp_path)
psf_copy(r, e) ==
    LET t == Task(r, e)
        src_path == join(Root, e)
        temp_path == TempPath(t.dest_path)
    IN /\ t.pc = "copy"
       /\ \E io \in IF exists(src_path) THEN IO({"ok", "corrupt", "error"}) ELSE {"enoent"} :
            /\ budget' = IF io = "enoent" THEN budget ELSE Spend(io)
            /\ fs' = CASE io = "ok" -> Write(temp_path, copy2(fs[src_path]))
                       [] io \in {"corrupt", "error"} -> Write(temp_path, Corrupt(fs[src_path]))
                       [] OTHER -> fs
            /\ SetTask(r, e,
                 CASE io = "ok" -> [t EXCEPT !.pc = "verify"]
                   [] io = "corrupt" -> [t EXCEPT !.pc = "verify", !.faulted = TRUE]
                   [] io = "error" -> Fail(t, "copy_error", TRUE)
                   [] OTHER -> Fail(t, "copy_error", FALSE))
       /\ UNCHANGED <<dirs, gui, life, undo_stack, undo>>

\* psf_verify without the comparison of the two hashes
psf_verify_unchecked(r, e) ==
    LET t == Task(r, e)
        temp_path == TempPath(t.dest_path)
    IN /\ t.pc = "verify"
       /\ SetTask(r, e,
            IF ~exists(temp_path) THEN Fail(t, "verify_error", FALSE)
            ELSE [t EXCEPT !.pc = "move"])
       /\ UNCHANGED <<fs, dirs, gui, life, undo_stack, undo, budget>>

\* self.file_hash(temp_path) != original_hash
psf_verify(r, e) ==
    LET t == Task(r, e)
        temp_path == TempPath(t.dest_path)
    IN /\ t.pc = "verify"
       /\ SetTask(r, e,
            IF ~exists(temp_path) THEN Fail(t, "verify_error", FALSE)
            ELSE IF sha256(fs[temp_path]) # t.original_hash THEN [t EXCEPT !.pc = "mismatch"]
            ELSE [t EXCEPT !.pc = "move"])
       /\ UNCHANGED <<fs, dirs, gui, life, undo_stack, undo, budget>>

\* os.remove(temp_path); raise IntegrityError
psf_mismatch(r, e) ==
    LET t == Task(r, e)
        temp_path == TempPath(t.dest_path)
    IN /\ t.pc = "mismatch"
       /\ fs' = IF exists(temp_path) THEN Remove(temp_path) ELSE fs
       /\ SetTask(r, e, Fail(t, "mismatch", FALSE))
       /\ UNCHANGED <<dirs, gui, life, undo_stack, undo, budget>>

\* os.rename(temp_path, dest_path)
psf_move(r, e) ==
    LET t == Task(r, e)
        temp_path == TempPath(t.dest_path)
    IN /\ t.pc = "move"
       /\ \E io \in IF exists(temp_path) THEN IO({"ok", "error"}) ELSE {"enoent"} :
            /\ budget' = IF io = "enoent" THEN budget ELSE Spend(io)
            /\ fs' = IF io = "ok" THEN Rename(temp_path, t.dest_path) ELSE fs
            /\ SetTask(r, e,
                 CASE io = "ok" -> [t EXCEPT !.pc = "remove"]
                   [] io = "error" -> Fail(t, "rename_error", TRUE)
                   [] OTHER -> Fail(t, "rename_error", FALSE))
       /\ UNCHANGED <<dirs, gui, life, undo_stack, undo>>

\* os.remove(src_path); return (src_path, dest_path)
psf_remove(r, e) ==
    LET t == Task(r, e)
        src_path == join(Root, e)
    IN /\ t.pc = "remove"
       /\ \E io \in IF exists(src_path) THEN IO({"ok", "error"}) ELSE {"enoent"} :
            /\ budget' = IF io = "enoent" THEN budget ELSE Spend(io)
            /\ fs' = IF io = "ok" THEN Remove(src_path) ELSE fs
            /\ SetTask(r, e,
                 CASE io = "ok" -> Done(t, "success", "")
                   [] io = "error" -> Fail(t, "remove_error", TRUE)
                   [] OTHER -> Fail(t, "remove_error", FALSE))
       /\ UNCHANGED <<dirs, gui, life, undo_stack, undo>>

\* psf_cleanup without the os.remove(temp_path) of the handler
psf_cleanup_keeps_temp(r, e) ==
    LET t == Task(r, e)
    IN /\ t.pc = "cleanup"
       /\ SetTask(r, e, Done(t, "failed", t.why))
       /\ UNCHANGED <<fs, dirs, gui, life, undo_stack, undo, budget>>

\* except Exception as move_error: remove temp_path if it exists (a failure of
\* that os.remove is logged as cleanup_error and nothing else), raise; return None
psf_cleanup(r, e) ==
    LET t == Task(r, e)
        temp_path == TempPath(t.dest_path)
    IN /\ t.pc = "cleanup"
       /\ \E io \in IF exists(temp_path) THEN IO({"ok", "error"}) ELSE {"absent"} :
            /\ budget' = IF io = "absent" THEN budget ELSE Spend(io)
            /\ fs' = IF io = "ok" THEN Remove(temp_path) ELSE fs
            /\ SetTask(r, e, [Done(t, "failed", t.why) EXCEPT !.cleanup_error = io = "error"])
       /\ UNCHANGED <<dirs, gui, life, undo_stack, undo>>

(***************************************************************************)
(* process_results                                                         *)
(***************************************************************************)
\* a plain list in place of the bounded deque
Push_unbounded(stack, batch) == Append(stack, batch)

\* deque(maxlen=5).append
Push(stack, batch) ==
    IF Len(stack) = undo_maxlen THEN Append(Tail(stack), batch) ELSE Append(stack, batch)

\* collect without the test "if result": every completed future is recorded
collect_every_result(r, e) ==
    LET t == Task(r, e)
    IN /\ runs[r].pc = "pool"
       /\ e \notin runs[r].collected
       /\ t.pc = "done"
       /\ runs' = [runs EXCEPT
                     ![r].collected = @ \cup {e},
                     ![r].moved_files = Append(@, <<join(Root, e), t.dest_path>>),
                     ![r].after = @ + 1]
       /\ UNCHANGED <<fs, dirs, gui, life, undo_stack, undo, budget>>

\* one turn of: for future in as_completed(futures)
collect(r, e) ==
    LET t == Task(r, e)
    IN /\ runs[r].pc = "pool"
       /\ e \notin runs[r].collected
       /\ t.pc = "done"
       /\ runs' = [runs EXCEPT
                     ![r].collected = @ \cup {e},
                     ![r].moved_files =
                         IF t.result = "success"
                         THEN Append(@, <<join(Root, e), t.dest_path>>) ELSE @,
                     \* update_ui_from_thread(lambda: self.update_progress(i / total * 100))
                     ![r].after = IF t.result = "success" /\ running THEN @ + 1 ELSE @]
       /\ UNCHANGED <<fs, dirs, gui, life, undo_stack, undo, budget>>

\* the Tk main loop runs one queued progress callback (_safe_execute): the
\* lambda reads the loop variable i of process_results as it is now, and total
update_progress(r) ==
    /\ runs[r].after > 0
    /\ runs' = [runs EXCEPT
                  ![r].after = @ - 1,
                  ![r].progress =
                      IF running
                      THEN Append(@, <<Cardinality(runs[r].collected),
                                       Cardinality(runs[r].entries)>>)
                      ELSE @]
    /\ UNCHANGED <<fs, dirs, gui, life, undo_stack, undo, budget>>

\* process_results without the test "if moved_files"
process_results_always_pushes(r) ==
    /\ runs[r].pc = "pool"
    /\ runs[r].collected = runs[r].entries
    /\ undo_stack' = Push(undo_stack, runs[r].moved_files)
    /\ runs' = [runs EXCEPT ![r].pc = "returned"]
    /\ UNCHANGED <<fs, dirs, gui, life, undo, budget>>

\* process_results that stops waiting once one future has completed
process_results_first_completed(r) ==
    /\ runs[r].pc = "pool"
    /\ runs[r].collected # {}
    /\ undo_stack' = IF runs[r].moved_files # <<>>
                     THEN Push(undo_stack, runs[r].moved_files) ELSE undo_stack
    /\ runs' = [runs EXCEPT ![r].pc = "returned"]
    /\ UNCHANGED <<fs, dirs, gui, life, undo, budget>>

\* after the loop: if moved_files: self.undo_stack.append(moved_files); the pool is left
process_results(r) ==
    /\ runs[r].pc = "pool"
    /\ runs[r].collected = runs[r].entries
    /\ undo_stack' = IF runs[r].moved_files # <<>>
                     THEN Push(undo_stack, runs[r].moved_files) ELSE undo_stack
    /\ runs' = [runs EXCEPT ![r].pc = "returned"]
    /\ UNCHANGED <<fs, dirs, gui, life, undo, budget>>

(***************************************************************************)
(* undo_last                                                               *)
(***************************************************************************)
\* if self.undo_stack: last_move = self.undo_stack.pop(); there is no else branch
undo_last ==
    /\ ~undo.active
    /\ IF undo_stack # <<>>
       THEN /\ undo' = [active |-> TRUE, batch |-> undo_stack[Len(undo_stack)],
                        i |-> Len(undo_stack[Len(undo_stack)]), log |-> <<>>,
                        found |-> "batch"]
            /\ undo_stack' = SubSeq(undo_stack, 1, Len(undo_stack) - 1)
       ELSE /\ undo' = [NoUndo EXCEPT !.found = "empty"]
            /\ undo_stack' = undo_stack
    /\ UNCHANGED <<fs, dirs, gui, life, runs, budget>>

\* undo_move without the try/except inside the loop: the first failure ends the loop
undo_move_unguarded ==
    LET src == undo.batch[undo.i][1]
        dest == undo.batch[undo.i][2]
    IN /\ undo.active
       /\ \E io \in IF exists(dest) THEN IO({"ok", "error"}) ELSE {"enoent"} :
            /\ budget' = IF io = "enoent" THEN budget ELSE Spend(io)
            /\ fs' = IF io = "ok" THEN Rename(dest, src) ELSE fs
            /\ undo' = [undo EXCEPT !.i = @ - 1, !.active = undo.i > 1 /\ io = "ok",
                                    !.log = Append(@, <<src, dest, io = "ok">>)]
       /\ UNCHANGED <<dirs, gui, life, undo_stack, runs>>

\* one turn of: for src, dest in reversed(last_move): try shutil.move(dest, src)
undo_move ==
    LET src == undo.batch[undo.i][1]
        dest == undo.batch[undo.i][2]
    IN /\ undo.active
       /\ \E io \in IF exists(dest) THEN IO({"ok", "error"}) ELSE {"enoent"} :
            /\ budget' = IF io = "enoent" THEN budget ELSE Spend(io)
            /\ fs' = IF io = "ok" THEN Rename(dest, src) ELSE fs
            /\ undo' = [undo EXCEPT !.i = @ - 1, !.active = undo.i > 1,
                                    !.log = Append(@, <<src, dest, io = "ok">>)]
       /\ UNCHANGED <<dirs, gui, life, undo_stack, runs>>

(***************************************************************************)
(* Profiles and the rule table.                                            *)
(***************************************************************************)
\* what the user types into the "Agregar Formato" dialog
TypedRules == {<<".xyz", "Datos">>, <<".XYZ", "Datos">>}

\* the profile names the user types or selects
ProfileNames == {"default", "work"}

\* the tables of the JSON files the user imports
ImportedTables ==
    {[e \in {".pdf", ""} |-> IF e = ".pdf" THEN "Trabajo" ELSE "Varios"]}

\* add_format / save_new_format: the row is inserted as typed (stripped)
add_format(ext, folder) ==
    /\ budget.edits > 0
    /\ budget' = [budget EXCEPT !.edits = @ - 1]
    /\ format_tree' = IF ext # "" /\ folder # ""
                      THEN Append(format_tree, <<ext, folder>>) ELSE format_tree
    /\ UNCHANGED <<fs, dirs, life, dir_entry, dir_access, profiles, current_profile,
                   undo_stack, runs, undo>>

\* formatos[ext] = folder for every row, in order: a later row replaces an earlier one
get_current_formats ==
    LET exts == {format_tree[k][1] : k \in 1..Len(format_tree)}
        last(x) == CHOOSE k \in 1..Len(format_tree) :
                       /\ format_tree[k][1] = x
                       /\ \A j \in (k + 1)..Len(format_tree) : format_tree[j][1] # x
    IN [x \in exts |-> format_tree[last(x)][2]]

\* save_profile: self.profiles[profile_name] = {directory, formatos, schedule}
save_profile(profile_name) ==
    /\ budget.edits > 0
    /\ budget' = [budget EXCEPT !.edits = @ - 1]
    /\ profiles' = IF profile_name = "" THEN profiles
                   ELSE [n \in DOMAIN profiles \cup {profile_name} |->
                           IF n = profile_name
                           THEN [directory |-> dir_entry, formatos |-> get_current_formats,
                                 schedule |-> TRUE]
                           ELSE profiles[n]]
    /\ UNCHANGED <<fs, dirs, life, dir_entry, dir_access, current_profile, format_tree,
                   undo_stack, runs, undo>>

\* _on_profile_changed and load_profile_settings, which stops with a KeyError
\* at profile["schedule"] for a profile without that key
_on_profile_changed(selected) ==
    /\ budget.edits > 0
    /\ budget' = [budget EXCEPT !.edits = @ - 1]
    /\ IF selected # "" /\ selected \in DOMAIN profiles
       THEN /\ current_profile' = selected
            /\ dir_entry' = profiles[selected].directory
            /\ format_tree' = IF profiles[selected].schedule
                              THEN Rows(profiles[selected].formatos) ELSE format_tree
       ELSE UNCHANGED <<current_profile, dir_entry, format_tree>>
    /\ UNCHANGED <<fs, dirs, life, dir_access, profiles, undo_stack, runs, undo>>

\* delete_profile: del self.profiles[profile_name] unless it is "default" (a
\* KeyError for a name that is no profile); self.current_profile is not
\* touched; save_to_file and load_profiles write and read back the same table
delete_profile(profile_name) ==
    /\ budget.edits > 0
    /\ budget' = [budget EXCEPT !.edits = @ - 1]
    /\ profiles' = IF profile_name # "default" /\ profile_name \in DOMAIN profiles
                   THEN [n \in DOMAIN profiles \ {profile_name} |-> profiles[n]]
                   ELSE profiles
    /\ UNCHANGED <<fs, dirs, life, dir_entry, dir_access, current_profile, format_tree,
                   undo_stack, runs, undo>>

\* import_formats: the table of the current profile is replaced by the imported
\* one; self.profiles[self.current_profile] of a profile that is gone raises
\* KeyError before anything is changed
import_formats(formats) ==
    /\ budget.edits > 0
    /\ budget' = [budget EXCEPT !.edits = @ - 1]
    /\ profiles' = IF current_profile \in DOMAIN profiles
                   THEN [profiles EXCEPT ![current_profile].formatos = formats]
                   ELSE profiles
    /\ format_tree' = IF current_profile \in DOMAIN profiles
                      THEN Rows(formats) ELSE format_tree
    /\ UNCHANGED <<fs, dirs, life, dir_entry, dir_access, current_profile, undo_stack, runs, undo>>

(***************************************************************************)
(* ThreadManager._thread_wrapper around process_queue (TaskProcessor) and  *)
(* run_scheduled_tasks (Scheduler).                                        *)
(***************************************************************************)
SetThread(n, th) ==
    /\ threads' = [threads EXCEPT ![n] = th]
    /\ UNCHANGED <<fs, dirs, gui, running, stop_event, undo_stack, runs, undo, budget>>

\* while not self.stop_event.is_set(): the wrapper goes on or ends
wrapper_test(n) ==
    /\ threads[n].pc = "while"
    /\ SetThread(n, [threads[n] EXCEPT !.pc = IF stop_event THEN "exited" ELSE "call"])

\* self.threads[name]["active"] = True; target()
wrapper_call(n) ==
    /\ threads[n].pc = "call"
    /\ SetThread(n, [threads[n] EXCEPT
                       !.pc = "target",
                       !.active = TRUE,
                       !.error = FALSE,
                       !.restarts = IF threads[n].error /\ @ < RestartCap THEN @ + 1 ELSE @])

\* target_test that enters the body whatever self.running is
target_test_ignores_running(n) ==
    /\ threads[n].pc = "target"
    /\ SetThread(n, [threads[n] EXCEPT !.pc = "body"])

\* while self.running: of process_queue and run_scheduled_tasks; when the
\* target returns, the finally of the wrapper clears "active"
target_test(n) ==
    /\ threads[n].pc = "target"
    /\ SetThread(n, IF running THEN [threads[n] EXCEPT !.pc = "body"]
                    ELSE [threads[n] EXCEPT !.pc = "while", !.active = FALSE])

\* one turn of the target's loop: task_queue.get(timeout=1) and task(), or
\* schedule.run_pending() and time.sleep(1); an exception other than Empty
\* leaves the target, the wrapper logs it and clears "active"
target_body(n, outcome) ==
    /\ threads[n].pc = "body"
    /\ SetThread(n, IF outcome = "raise"
                    THEN [threads[n] EXCEPT !.pc = "while", !.active = FALSE, !.error = TRUE]
                    ELSE [threads[n] EXCEPT !.pc = "target"])

ThreadStep(n) ==
    \/ wrapper_test(n)
    \/ wrapper_call(n)
    \/ target_test(n)
    \/ \E outcome \in {"ok", "raise"} : target_body(n, outcome)

(***************************************************************************)
(* on_closing                                                              *)
(***************************************************************************)
\* WM_DELETE_WINDOW: self.running = False
on_closing ==
    /\ running
    /\ running' = FALSE
    /\ UNCHANGED <<fs, dirs, gui, stop_event, threads, undo_stack, runs, undo, budget>>

\* thread_manager.stop_all, called next by on_closing: self.stop_event.set();
\* the joins wait 3 seconds at most
stop_all ==
    /\ ~running
    /\ ~stop_event
    /\ stop_event' = TRUE
    /\ UNCHANGED <<fs, dirs, gui, running, threads, undo_stack, runs, undo, budget>>

(***************************************************************************)
(* The environment.                                                        *)
(***************************************************************************)
\* the user puts a new report.pdf into the directory
drop_file ==
    /\ budget.drops > 0
    /\ Idle
    /\ ~exists(join(Root, ReportPdf))
    /\ fs' = Write(join(Root, ReportPdf), DroppedFile(budget.drops))
    /\ budget' = [budget EXCEPT !.drops = @ - 1]
    /\ UNCHANGED <<dirs, gui, life, undo_stack, runs, undo>>

\* "Organizar Ahora" or the scheduler, while no run and no undo is in progress
organize_when_idle == Idle /\ start_organization

\* "Deshacer", while no run is in progress
undo_when_idle == Idle /\ undo_last

\* "Organizar Ahora" or the scheduler while the window is open
organize_while_open == running /\ organize_when_idle

(***************************************************************************)
(* Specifications.                                                         *)
(***************************************************************************)
\* one run at a time, undo only between runs
Next ==
    \/ organize_when_idle
    \/ \E r \in DOMAIN runs : \E e \in runs[r].entries : psf_validate(r, e)
    \/ \E r \in DOMAIN runs : \E e \in runs[r].entries : psf_hash(r, e)
    \/ \E r \in DOMAIN runs : \E e \in runs[r].entries : psf_makedirs(r, e)
    \/ \E r \in DOMAIN runs : \E e \in runs[r].entries : psf_conflict(r, e)
    \/ \E r \in DOMAIN runs : \E e \in runs[r].entries : psf_rename_loop(r, e)
    \/ \E r \in DOMAIN runs : \E e \in runs[r].entries : psf_copy(r, e)
    \/ \E r \in DOMAIN runs : \E e \in runs[r].entries : psf_verify(r, e)
    \/ \E r \in DOMAIN runs : \E e \in runs[r].entries : psf_mismatch(r, e)
    \/ \E r \in DOMAIN runs : \E e \in runs[r].entries : psf_move(r, e)
    \/ \E r \in DOMAIN runs : \E e \in runs[r].entries : psf_remove(r, e)
    \/ \E r \in DOMAIN runs : \E e \in runs[r].entries : psf_cleanup(r, e)
    \/ \E r \in DOMAIN runs : \E e \in runs[r].entries : collect(r, e)
    \/ \E r \in DOMAIN runs : process_results(r)
    \/ undo_when_idle
    \/ undo_move

Spec == Init /\ [][Next]_vars

\* the ledger scenario: many runs, the user dropping a new file between them
NextLedger ==
    \/ organize_when_idle
    \/ \E r \in DOMAIN runs : \E e \in runs[r].entries : psf_validate(r, e)
    \/ \E r \in DOMAIN runs : \E e \in runs[r].entries : psf_hash(r, e)
    \/ \E r \in DOMAIN runs : \E e \in runs[r].entries : psf_makedirs(r, e)
    \/ \E r \in DOMAIN runs : \E e \in runs[r].entries : psf_conflict(r, e)
    \/ \E r \in DOMAIN runs : \E e \in runs[r].entries : psf_rename_loop(r, e)
    \/ \E r \in DOMAIN runs : \E e \in runs[r].entries : psf_copy(r, e)
    \/ \E r \in DOMAIN runs : \E e \in runs[r].entries : psf_verify(r, e)
    \/ \E r \in DOMAIN runs : \E e \in runs[r].entries : psf_mismatch(r, e)
    \/ \E r \in DOMAIN runs : \E e \in runs[r].entries : psf_move(r, e)
    \/ \E r \in DOMAIN runs : \E e \in runs[r].entries : psf_remove(r, e)
    \/ \E r \in DOMAIN runs : \E e \in runs[r].entries : psf_cleanup(r, e)
    \/ \E r \in DOMAIN runs : \E e \in runs[r].entries : collect(r, e)
    \/ \E r \in DOMAIN runs : process_results(r)
    \/ undo_when_idle
    \/ undo_move
    \/ drop_file

SpecLedger == InitLedger /\ [][NextLedger]_vars

\* every trigger and the undo button at any moment, runs overlapping
NextOverlap ==
    \/ start_organization
    \/ \E r \in DOMAIN runs : \E e \in runs[r].entries : psf_validate(r, e)
    \/ \E r \in DOMAIN runs : \E e \in runs[r].entries : psf_hash(r, e)
    \/ \E r \in DOMAIN runs : \E e \in runs[r].entries : psf_makedirs(r, e)
    \/ \E r \in DOMAIN runs : \E e \in runs[r].entries : psf_conflict(r, e)
    \/ \E r \in DOMAIN runs : \E e \in runs[r].entries : psf_rename_loop(r, e)
    \/ \E r \in DOMAIN runs : \E e \in runs[r].entries : psf_copy(r, e)
    \/ \E r \in DOMAIN runs : \E e \in runs[r].entries : psf_verify(r, e)
    \/ \E r \in DOMAIN runs : \E e \in runs[r].entries : psf_mismatch(r, e)
    \/ \E r \in DOMAIN runs : \E e \in runs[r].entries : psf_move(r, e)
    \/ \E r \in DOMAIN runs : \E e \in runs[r].entries : psf_remove(r, e)
    \/ \E r \in DOMAIN runs : \E e \in runs[r].entries : psf_cleanup(r, e)
    \/ \E r \in DOMAIN runs : \E e \in runs[r].entries : collect(r, e)
    \/ \E r \in DOMAIN runs : process_results(r)
    \/ undo_last
    \/ undo_move

SpecOverlap == InitOverlap /\ [][NextOverlap]_vars

\* the settings are edited at any time, also while the workers run
NextProfiles ==
    \/ organize_when_idle
    \/ \E r \in DOMAIN runs : \E e \in runs[r].entries : psf_validate(r, e)
    \/ \E r \in DOMAIN runs : \E e \in runs[r].entries : psf_hash(r, e)
    \/ \E r \in DOMAIN runs : \E e \in runs[r].entries : psf_makedirs(r, e)
    \/ \E r \in DOMAIN runs : \E e \in runs[r].entries : psf_conflict(r, e)
    \/ \E r \in DOMAIN runs : \E e \in runs[r].entries : psf_copy(r, e)
    \/ \E r \in DOMAIN runs : \E e \in runs[r].entries : psf_verify(r, e)
    \/ \E r \in DOMAIN runs : \E e \in runs[r].entries : psf_move(r, e)
    \/ \E r \in DOMAIN runs : \E e \in runs[r].entries : psf_remove(r, e)
    \/ \E r \in DOMAIN runs : \E e \in runs[r].entries : collect(r, e)
    \/ \E r \in DOMAIN runs : process_results(r)
    \/ \E rule \in TypedRules : add_format(rule[1], rule[2])
    \/ \E n \in ProfileNames : save_profile(n)
    \/ \E n \in ProfileNames : _on_profile_changed(n)
    \/ \E formats \in ImportedTables : import_formats(formats)

SpecProfiles == InitProfiles /\ [][NextProfiles]_vars

\* the intake scenario, one run at a time, with the main loop showing progress
NextIntake ==
    \/ organize_when_idle
    \/ \E r \in DOMAIN runs : \E e \in runs[r].entries : psf_validate(r, e)
    \/ \E r \in DOMAIN runs : \E e \in runs[r].entries : psf_hash(r, e)
    \/ \E r \in DOMAIN runs : \E e \in runs[r].entries : psf_makedirs(r, e)
    \/ \E r \in DOMAIN runs : \E e \in runs[r].entries : psf_conflict(r, e)
    \/ \E r \in DOMAIN runs : \E e \in runs[r].entries : psf_rename_loop(r, e)
    \/ \E r \in DOMAIN runs : \E e \in runs[r].entries : psf_copy(r, e)
    \/ \E r \in DOMAIN runs : \E e \in runs[r].entries : psf_verify(r, e)
    \/ \E r \in DOMAIN runs : \E e \in runs[r].entries : psf_mismatch(r, e)
    \/ \E r \in DOMAIN runs : \E e \in runs[r].entries : psf_move(r, e)
    \/ \E r \in DOMAIN runs : \E e \in runs[r].entries : psf_remove(r, e)
    \/ \E r \in DOMAIN runs : \E e \in runs[r].entries : psf_cleanup(r, e)
    \/ \E r \in DOMAIN runs : \E e \in runs[r].entries : collect(r, e)
    \/ \E r \in DOMAIN runs : process_results(r)
    \/ \E r \in DOMAIN runs : update_progress(r)
    \/ undo_when_idle
    \/ undo_move

SpecIntake == InitIntake /\ [][NextIntake]_vars

\* process_single_file called directly with any conflict policy
NextPolicy ==
    \/ \E filename \in Universe, policy \in Policies : process_single_file(filename, policy)
    \/ \E r \in DOMAIN runs : \E e \in runs[r].entries : psf_validate(r, e)
    \/ \E r \in DOMAIN runs : \E e \in runs[r].entries : psf_hash(r, e)
    \/ \E r \in DOMAIN runs : \E e \in runs[r].entries : psf_makedirs(r, e)
    \/ \E r \in DOMAIN runs : \E e \in runs[r].entries : psf_conflict(r, e)
    \/ \E r \in DOMAIN runs : \E e \in runs[r].entries : psf_rename_loop(r, e)
    \/ \E r \in DOMAIN runs : \E e \in runs[r].entries : psf_copy(r, e)
    \/ \E r \in DOMAIN runs : \E e \in runs[r].entries : psf_verify(r, e)
    \/ \E r \in DOMAIN runs : \E e \in runs[r].entries : psf_move(r, e)
    \/ \E r \in DOMAIN runs : \E e \in runs[r].entries : psf_remove(r, e)

SpecPolicy == InitPolicy /\ [][NextPolicy]_vars

\* the settings alone: rules and profiles are added, saved, selected, deleted
NextSettings ==
    \/ \E rule \in TypedRules : add_format(rule[1], rule[2])
    \/ \E n \in ProfileNames : save_profile(n)
    \/ \E n \in ProfileNames : delete_profile(n)
    \/ \E n \in ProfileNames : _on_profile_changed(n)
    \/ \E formats \in ImportedTables : import_formats(formats)

SpecSettings == InitProfiles /\ [][NextSettings]_vars

\* one run at a time over a destination folder that holds a .tmp file
SpecStale == InitStale /\ [][Next]_vars

\* the supervised threads and the closing of the window
NextThreads ==
    \/ \E n \in ThreadNames : wrapper_test(n)
    \/ \E n \in ThreadNames : wrapper_call(n)
    \/ \E n \in ThreadNames : target_test(n)
    \/ \E n \in ThreadNames : \E outcome \in {"ok", "raise"} : target_body(n, outcome)
    \/ on_closing
    \/ stop_all

\* a thread that can take a step is scheduled in the end, and on_closing goes
\* on to stop_all
SpecThreads ==
    /\ InitThreads
    /\ [][NextThreads]_vars
    /\ \A n \in ThreadNames : WF_vars(ThreadStep(n))
    /\ WF_vars(stop_all)

\* one run at a time, two I/O errors
SpecFaults == InitFaults /\ [][Next]_vars

\* the window is closed at any moment of a run; the pool of the run is
\* joined when the interpreter exits, so its workers go on
NextClosing ==
    \/ organize_while_open
    \/ \E r \in DOMAIN runs : \E e \in runs[r].entries : psf_validate(r, e)
    \/ \E r \in DOMAIN runs : \E e \in runs[r].entries : psf_hash(r, e)
    \/ \E r \in DOMAIN runs : \E e \in runs[r].entries : psf_makedirs(r, e)
    \/ \E r \in DOMAIN runs : \E e \in runs[r].entries : psf_conflict(r, e)
    \/ \E r \in DOMAIN runs : \E e \in runs[r].entries : psf_rename_loop(r, e)
    \/ \E r \in DOMAIN runs : \E e \in runs[r].entries : psf_copy(r, e)
    \/ \E r \in DOMAIN runs : \E e \in runs[r].entries : psf_verify(r, e)
    \/ \E r \in DOMAIN runs : \E e \in runs[r].entries : psf_mismatch(r, e)
    \/ \E r \in DOMAIN runs : \E e \in runs[r].entries : psf_move(r, e)
    \/ \E r \in DOMAIN runs : \E e \in runs[r].entries : psf_remove(r, e)
    \/ \E r \in DOMAIN runs : \E e \in runs[r].entries : psf_cleanup(r, e)
    \/ \E r \in DOMAIN runs : \E e \in runs[r].entries : collect(r, e)
    \/ \E r \in DOMAIN runs : process_results(r)
    \/ on_closing
    \/ stop_all

SpecClosing == Init /\ [][NextClosing]_vars

(***************************************************************************)
(* Properties.                                                             *)
(***************************************************************************)
SrcPath(e) == join(Root, e)

\* the task (r, e) takes a step: its record changes within the same run
Steps(r, e) ==
    /\ r \in DOMAIN runs'
    /\ runs'[r].tasks[e] # runs[r].tasks[e]

\* the task (r, e) returns in this step
Returns(r, e) == Steps(r, e) /\ runs'[r].tasks[e].pc = "done"

\* os.rename(temp_path, dest_path) of the task has succeeded
Renamed(t) == t.pc = "remove" \/ t.result = "success" \/ t.why = "remove_error"

\* the entries of a run that were regular files when the directory was listed
FileEntries(r) == {e \in runs[r].entries : SrcPath(e) \in DOMAIN runs[r].pre}

\* C1: whenever process_single_file returns (source, destination), the source
\* path is gone and the destination holds a file with the hash taken of the
\* source before the move, for every interleaving of the workers of one run.
C1_SuccessMeansMoved ==
    [][\A r \in DOMAIN runs : \A e \in runs[r].entries :
          (Returns(r, e) /\ runs'[r].tasks[e].result = "success") =>
             LET t == runs'[r].tasks[e]
             IN /\ SrcPath(e) \notin DOMAIN fs'
                /\ t.dest_path \in DOMAIN fs'
                /\ sha256(fs'[t.dest_path]) = t.original_hash]_vars

\* C2: while a move has not renamed its verified copy to the final
\* destination (a fault after the temp copy included), the source file of the
\* move still exists with the content it had when the run listed it.
C2_SourceKeptUntilRenamed ==
    \A r \in DOMAIN runs : Active(r) =>
        \A e \in FileEntries(r) :
            ~Renamed(Task(r, e)) =>
                /\ exists(SrcPath(e))
                /\ fs[SrcPath(e)] = runs[r].pre[SrcPath(e)]

\* a fault hit the move between the temp copy and the rename, the source is intact
C2_Witness ==
    \E r \in DOMAIN runs : \E e \in FileEntries(r) :
        /\ Active(r)
        /\ Task(r, e).pc = "done"
        /\ Task(r, e).why = "rename_error"
        /\ Task(r, e).faulted
        /\ exists(SrcPath(e))
        /\ fs[SrcPath(e)] = runs[r].pre[SrcPath(e)]
        /\ ~exists(TempPath(Task(r, e).dest_path))

Candidate(e, n) == IF n = 0 THEN e ELSE NewName(e, n)

\* where a move of e alone ends, given the files that were there when the run began
AloneDest(r, e) ==
    LET d == FolderOf(e)
        taken(n) == join(d, Candidate(e, n)) \in DOMAIN runs[r].pre
        n == CHOOSE m \in 0..Cardinality(DOMAIN runs[r].pre) :
                 ~taken(m) /\ \A k \in 0..(m - 1) : taken(k)
    IN join(d, Candidate(e, n))

\* C4: under the rename policy, when the destination folder already holds a
\* file with the source's name, the moved file is stored as <base>_N<ext> with
\* N the smallest integer >= 1 whose name is free, and the files that were in
\* the folder before are unchanged.
C4_RenameSmallestFree ==
    [][\A r \in DOMAIN runs : \A e \in runs[r].entries :
          (Returns(r, e) /\ runs'[r].tasks[e].result = "success") =>
             LET t == runs'[r].tasks[e]
                 pre == runs[r].pre
                 taken(n) == join(t.dest_dir, Candidate(e, n)) \in DOMAIN pre
             IN taken(0) =>
                  /\ \E n \in 1..Cardinality(DOMAIN pre) :
                        /\ t.dest_path = join(t.dest_dir, NewName(e, n))
                        /\ ~taken(n)
                        /\ \A k \in 1..(n - 1) : taken(k)
                  /\ t.dest_path \in DOMAIN fs'
                  /\ fs'[t.dest_path] = pre[SrcPath(e)]
                  /\ \A p \in DOMAIN pre :
                        (p.dir = t.dest_dir /\ ~p.tmp) =>
                            p \in DOMAIN fs' /\ fs'[p] = pre[p]]_vars

\* the third report.pdf has been stored as report_2.pdf beside report.pdf and report_1.pdf
C4_Witness ==
    \E r \in DOMAIN runs :
        LET t == Task(r, ReportPdf)
        IN /\ ReportPdf \in runs[r].entries
           /\ t.result = "success"
           /\ t.dest_path = join("PDFs", NewName(ReportPdf, 2))
           /\ join("PDFs", ReportPdf) \in DOMAIN runs[r].pre
           /\ join("PDFs", NewName(ReportPdf, 1)) \in DOMAIN runs[r].pre
           /\ exists(t.dest_path)
           /\ fs[t.dest_path] = runs[r].pre[SrcPath(ReportPdf)]

\* C5: in a run of two files A and B, a failure of A's move leaves B's move
\* as it would have been without A: B, hit by no fault of its own, is moved to
\* the destination it would have had alone.
C5_BatchIsolation ==
    \A r \in DOMAIN runs : runs[r].pc = "returned" =>
        \A a, b \in FileEntries(r) :
            (/\ a # b
             /\ FileEntries(r) = {a, b}
             /\ Task(r, a).result = "failed"
             /\ ~Task(r, b).faulted)
                => /\ Task(r, b).result = "success"
                   /\ Task(r, b).dest_path = AloneDest(r, b)

\* C6: when organize_files returns, every submitted entry has one terminal
\* outcome that no longer changes, and a batch is pushed onto the undo stack
\* only in the step that ends a run all of whose entries have completed.
C6_StrictJoin ==
    [][/\ \A r \in DOMAIN runs' :
            runs'[r].pc = "returned" =>
                \A e \in runs'[r].entries :
                    /\ runs'[r].tasks[e].pc = "done"
                    /\ runs'[r].tasks[e].result \in {"success", "skipped", "failed"}
       /\ \A r \in DOMAIN runs : \A e \in runs[r].entries :
            (Task(r, e).pc = "done" /\ r \in DOMAIN runs') => runs'[r].tasks[e] = Task(r, e)
       /\ (undo_stack' # undo_stack /\ Len(undo_stack') >= Len(undo_stack)) =>
            \E r \in DOMAIN runs :
                /\ runs[r].pc = "pool"
                /\ runs'[r].pc = "returned"
                /\ \A e \in runs[r].entries : Task(r, e).pc = "done"
                /\ undo_stack'[Len(undo_stack')] = runs[r].moved_files]_vars

\* a run of two files has returned, one moved and one failed, its batch on the stack
C6_Witness ==
    \E r \in DOMAIN runs :
        /\ runs[r].pc = "returned"
        /\ Cardinality(FileEntries(r)) = 2
        /\ \E a, b \in FileEntries(r) :
              Task(r, a).result = "success" /\ Task(r, b).result = "failed"
        /\ undo_stack # <<>>
        /\ undo_stack[Len(undo_stack)] = runs[r].moved_files

\* C7: no source file is in the hands of two workers at the same time,
\* whatever the sequence of organize triggers.
InFlight(r, e) == e \in runs[r].entries /\ Task(r, e).pc \notin {"queued", "done"}

C7_OneWorkerPerFile ==
    \A r1, r2 \in DOMAIN runs : \A e \in FileEntries(r1) :
        (InFlight(r1, e) /\ InFlight(r2, e)) => r1 = r2

\* C8: after a run moved files and nothing else touched the filesystem,
\* undo_last leaves every moved file at its original path with its original
\* content and none of them in a category folder.
C8_UndoRestores ==
    \A r \in DOMAIN runs :
        (/\ runs[r].pc = "returned"
         /\ budget.faults = MaxFaults
         /\ ~undo.active
         /\ undo.batch # <<>>
         /\ undo.batch = runs[r].moved_files)
            => \A i \in 1..Len(undo.batch) :
                  LET src == undo.batch[i][1]
                      dest == undo.batch[i][2]
                  IN /\ exists(src)
                     /\ fs[src] = runs[r].pre[src]
                     /\ ~exists(dest)

\* C9: the undo stack never holds more than 5 batches; a push onto a full
\* stack drops the oldest batch and keeps the others in order; undo_last
\* takes the most recent batch and leaves the older ones.
C9_BoundedLedger ==
    [][/\ Len(undo_stack') <= 5
       /\ undo_stack' # undo_stack =>
            \/ /\ undo_stack' = SubSeq(undo_stack, 1, Len(undo_stack) - 1)
               /\ undo'.active
               /\ undo'.batch = undo_stack[Len(undo_stack)]
            \/ \E r \in DOMAIN runs :
                 /\ runs'[r].pc = "returned"
                 /\ runs[r].moved_files # <<>>
                 /\ undo_stack' =
                       (IF Len(undo_stack) = 5
                        THEN SubSeq(undo_stack, 2, 5) ELSE undo_stack)
                           \o <<runs[r].moved_files>>]_vars

\* six batches were pushed: the stack holds the moves to report_1 .. report_5, and
\* report.pdf of the first run is in PDFs with no batch left to take it back
C9_Witness ==
    /\ Len(undo_stack) = 5
    /\ \A k \in 1..5 :
          undo_stack[k] = <<<<join(Root, ReportPdf), join("PDFs", NewName(ReportPdf, k))>>>>
    /\ exists(join("PDFs", ReportPdf))

\* C10: undo_last attempts every move of the popped batch exactly once, in
\* reverse order of recording, also after one of them failed; a move back
\* that nothing prevents (the file is at its destination, no I/O fault) puts
\* the file back, and every file whose move back succeeded is at its original
\* path when undo_last ends.
C10_UndoContinues ==
    [][/\ (undo.active /\ budget.faults = 0 /\ undo.batch[undo.i][2] \in DOMAIN fs) =>
          LET src == undo.batch[undo.i][1]
              dest == undo.batch[undo.i][2]
          IN /\ src \in DOMAIN fs'
             /\ fs'[src] = fs[dest]
             /\ dest \notin DOMAIN fs'
       /\ (undo.active /\ ~undo'.active) =>
          /\ Len(undo'.log) = Len(undo.batch)
          /\ \A k \in 1..Len(undo.batch) :
                LET pair == undo.batch[Len(undo.batch) + 1 - k]
                    entry == undo'.log[k]
                IN /\ entry[1] = pair[1]
                   /\ entry[2] = pair[2]
                   /\ entry[3] => (pair[1] \in DOMAIN fs' /\ pair[2] \notin DOMAIN fs')]_vars

\* the first move back failed and the second one was still made
C10_Witness ==
    /\ ~undo.active
    /\ Len(undo.log) = 2
    /\ ~undo.log[1][3]
    /\ undo.log[2][3]
    /\ exists(undo.log[2][1])
    /\ exists(undo.log[1][2])

\* C11: undo_last on an empty ledger is a no-op that reports it: the call
\* moves no file, leaves the ledger empty and writes a message saying that
\* there is nothing to undo.
C11_EmptyUndoReports ==
    [][(undo'.found = "empty" /\ undo.found # "empty") =>
          /\ fs' = fs
          /\ undo_stack' = <<>>
          /\ ~undo'.active
          /\ undo'.log # <<>>]_vars

\* C12: the batch pushed when a run ends holds exactly the (source,
\* destination) pairs of the entries whose move returned success, each once;
\* a run without a success pushes nothing.
C12_BatchIsSuccesses ==
    [][\A r \in DOMAIN runs :
          (runs[r].pc = "pool" /\ r \in DOMAIN runs' /\ runs'[r].pc = "returned") =>
             LET ok == {e \in runs[r].entries : Task(r, e).result = "success"}
                 pairs == {<<SrcPath(e), Task(r, e).dest_path>> : e \in ok}
             IN IF ok = {} THEN undo_stack' = undo_stack
                ELSE /\ undo_stack' # <<>>
                     /\ LET batch == undo_stack'[Len(undo_stack')]
                        IN /\ {batch[k] : k \in 1..Len(batch)} = pairs
                           /\ Len(batch) = Cardinality(ok)]_vars

\* a run with a moved file, a failed file and a skipped folder has pushed the one pair
C12_Witness ==
    \E r \in DOMAIN runs :
        /\ runs[r].pc = "returned"
        /\ \E a, b, c \in runs[r].entries :
              /\ Task(r, a).result = "success"
              /\ Task(r, b).result = "failed"
              /\ Task(r, c).result = "skipped"
              /\ undo_stack # <<>>
              /\ undo_stack[Len(undo_stack)] = <<<<SrcPath(a), Task(r, a).dest_path>>>>

\* C13: when the directory given to organize_files is not a directory or is
\* not both readable and writable, the call ends before any worker starts:
\* no entry is submitted, no file or folder changes, nothing is pushed onto
\* the undo stack, and the failure is reported once.
C13_InvalidDirectoryAborts ==
    [][/\ \A r \in DOMAIN runs' \ DOMAIN runs :
             (dir_entry = "" \/ dir_access # "rw") =>
                /\ runs'[r].pc = "returned"
                /\ runs'[r].entries = {}
                /\ runs'[r].errors = 1
                /\ fs' = fs
                /\ dirs' = dirs
                /\ undo_stack' = undo_stack
       /\ \A r \in DOMAIN runs \cap DOMAIN runs' :
             /\ runs'[r].errors = runs[r].errors
             /\ runs[r].errors = 1 => (fs' = fs /\ dirs' = dirs /\ undo_stack' = undo_stack)]_vars

\* a read-only directory with a file that would be moved: the run was refused
C13_Witness ==
    \E r \in DOMAIN runs :
        /\ dir_entry = Root
        /\ dir_access = "r"
        /\ runs[r].pc = "returned"
        /\ runs[r].errors = 1
        /\ runs[r].entries = {}
        /\ exists(join(Root, ReportPdf))
        /\ undo_stack = <<>>

\* C14: a zero-byte file is never moved: in and after every run that listed
\* it, it is at its source path with its content, no temporary or destination
\* file exists for it, and once its task has ended its outcome is skipped.
C14_EmptyFileStays ==
    \A r \in DOMAIN runs : \A e \in FileEntries(r) :
        runs[r].pre[SrcPath(e)].size = 0 =>
            /\ exists(SrcPath(e))
            /\ fs[SrcPath(e)] = runs[r].pre[SrcPath(e)]
            /\ \A p \in DOMAIN fs : p.name.base = e.base => p = SrcPath(e)
            /\ Task(r, e).result \in {"pending", "skipped"}
            /\ Task(r, e).pc \in {"queued", "done"}
            /\ runs[r].pc = "returned" => Task(r, e).result = "skipped"

\* the run has ended: empty.txt was skipped while another file of the run was moved
C14_Witness ==
    \E r \in DOMAIN runs :
        /\ runs[r].pc = "returned"
        /\ EmptyTxt \in runs[r].entries
        /\ Task(r, EmptyTxt).result = "skipped"
        /\ Task(r, EmptyTxt).why = "invalid"
        /\ exists(join(Root, EmptyTxt))
        /\ \E o \in runs[r].entries : Task(r, o).result = "success"

\* C15: a file whose extension has no rule in the table is not rejected by
\* validation and is routed to the folder the table yields for a blank
\* extension (the configured default); resolution never fails.
C15_UnknownExtensionToDefault ==
    [][\A r \in DOMAIN runs : \A e \in runs[r].entries :
          (Steps(r, e) /\ Lower(e.ext) \notin DOMAIN formatos) =>
             /\ (Task(r, e).pc = "queued" /\ exists(SrcPath(e)))
                   => runs'[r].tasks[e].pc = "hash"
             /\ Task(r, e).pc = "hash"
                   => /\ runs'[r].tasks[e].pc = "mkdir"
                      /\ runs'[r].tasks[e].dest_dir = Get(formatos, "", "Otros")]_vars

\* C16: extension matching ignores letter case: once the table of the current
\* profile holds a rule (ext, folder), added with any letter case of ext, a
\* file whose extension equals ext ignoring case is routed to folder.
C16_CaseInsensitiveRules ==
    [][\A r \in DOMAIN runs : \A e \in runs[r].entries :
          (Steps(r, e) /\ Task(r, e).pc = "hash" /\ runs'[r].tasks[e].pc = "mkdir") =>
             \A ext \in DOMAIN formatos :
                 Lower(ext) = Lower(e.ext) =>
                     runs'[r].tasks[e].dest_dir = formatos[ext]]_vars

\* C17: a .jpg, .png, .pdf or .docx file whose first bytes are not the
\* signature of its extension ends as failed, not as skipped, and stays at its
\* source path with its content.
C17_BadSignatureFails ==
    \A r \in DOMAIN runs : \A e \in FileEntries(r) :
        (/\ Lower(e.ext) \in SIGNATURES
         /\ runs[r].pre[SrcPath(e)].size # 0
         /\ ~_validate_file_signature(runs[r].pre[SrcPath(e)], Lower(e.ext)))
            => /\ exists(SrcPath(e))
               /\ fs[SrcPath(e)] = runs[r].pre[SrcPath(e)]
               /\ Task(r, e).pc = "done" => Task(r, e).result = "failed"

\* what validate_file answers for the file the run listed under the name e
PreValid(r, e) ==
    LET f == runs[r].pre[SrcPath(e)]
    IN /\ f.mode = "rw"
       /\ ~f.open
       /\ ~IsSystemName(e)
       /\ f.size # 0
       /\ f.size <= MaxFileSize
       /\ _validate_file_signature(f, Lower(e.ext))

\* C18: a file that fails validation never reaches the move steps: no hash is
\* taken and no destination resolved for it, its folder is not created on its
\* account, no temporary or destination file is written for it, and the
\* source file is unchanged.
C18_InvalidNeverMoves ==
    \A r \in DOMAIN runs : \A e \in FileEntries(r) :
        ~PreValid(r, e) =>
            /\ Task(r, e).pc \in {"queued", "done"}
            /\ Task(r, e).original_hash = NoHash
            /\ Task(r, e).dest_dir = Root
            /\ Task(r, e).dest_path = SrcPath(e)
            /\ exists(SrcPath(e))
            /\ fs[SrcPath(e)] = runs[r].pre[SrcPath(e)]
            /\ \A p \in DOMAIN fs : p.name.base = e.base => p = SrcPath(e)
            /\ FolderOf(e) \in dirs =>
                  \/ Name(FolderOf(e), <<>>, "") \in runs[r].entries
                  \/ \E o \in runs[r].entries \ {e} : Task(r, o).dest_dir = FolderOf(e)

\* fake.pdf was turned away by validation while report.pdf of the same run went to PDFs
C18_Witness ==
    \E r \in DOMAIN runs :
        /\ {FakePdf, ReportPdf} \subseteq runs[r].entries
        /\ Task(r, FakePdf).pc = "done"
        /\ Task(r, FakePdf).why = "invalid"
        /\ Task(r, ReportPdf).result = "success"
        /\ "PDFs" \in dirs
        /\ exists(join(Root, FakePdf))
        /\ ~exists(join("PDFs", FakePdf))

\* C19: in a run with at least one submitted entry a progress value
\* completed/total is emitted after each completion, whatever its outcome:
\* once the run has ended and the main loop has shown everything queued, one
\* value per entry was emitted, the values do not decrease and the last is
\* total/total.
C19_ProgressPerCompletion ==
    \A r \in DOMAIN runs :
        (runs[r].pc = "returned" /\ runs[r].entries # {} /\ runs[r].after = 0) =>
            LET shown == runs[r].progress
                total == Cardinality(runs[r].entries)
            IN /\ Len(shown) = total
               /\ \A k \in 1..(Len(shown) - 1) : shown[k][1] <= shown[k + 1][1]
               /\ shown[Len(shown)] = <<total, total>>

\* C20: every file of a run is classified with the rule table of the moment the
\* run was invoked: a destination folder chosen by a worker is the folder that
\* table gives for the file's extension, whatever profile switch or import of
\* rules happened while the run was in progress.
C20_TableSnapshot ==
    \A r \in DOMAIN runs : \A e \in runs[r].entries :
        Task(r, e).dest_dir # Root =>
            Task(r, e).dest_dir = Get(runs[r].table, Lower(e.ext), "Otros")

\* C21: the organize run honours the cancellation signal between file
\* dispatches: once self.running is cleared, no file that is still waiting
\* for a worker is started.
C21_NoDispatchAfterCancel ==
    [][\A r \in DOMAIN runs : \A e \in runs[r].entries :
          (~running /\ Task(r, e).pc = "queued" /\ r \in DOMAIN runs') =>
             runs'[r].tasks[e].pc = "queued"]_vars

\* an I/O error at step 5 (makedirs) or in step 7 at the copy or the rename
IOFailure(t) ==
    /\ t.result = "failed"
    /\ t.why \in {"mkdir_error", "copy_error", "rename_error"}
    /\ t.faulted

\* C22 as stated: when creating the destination folder, copying to the
\* temporary file or renaming it fails with an I/O error, the file's outcome
\* is failed, no temporary file of the move remains and the source file
\* still exists unchanged.
C22_FailureLeavesNoTemp ==
    [][\A r \in DOMAIN runs : \A e \in FileEntries(r) :
          (Returns(r, e) /\ IOFailure(runs'[r].tasks[e])) =>
             /\ TempPath(runs'[r].tasks[e].dest_path) \notin DOMAIN fs'
             /\ SrcPath(e) \in DOMAIN fs'
             /\ fs'[SrcPath(e)] = runs[r].pre[SrcPath(e)]]_vars

\* C22: when creating the destination folder, copying to the temporary file
\* or renaming it fails with an I/O error, the error is caught, the file's
\* outcome is failed and the source file still exists unchanged; no temporary
\* file of the move remains unless the removal of the temporary file in the
\* handler failed as well (cleanup_error).
C22_FailureCleansBestEffort ==
    [][\A r \in DOMAIN runs : \A e \in FileEntries(r) :
          LET t == Task(r, e)
              failing == /\ Steps(r, e)
                         /\ t.pc \in {"mkdir", "copy", "move"}
                         /\ budget'.faults < budget.faults
                         /\ fs' \in {fs, Write(TempPath(t.dest_path), Corrupt(fs[SrcPath(e)]))}
          IN /\ failing => \/ IOFailure(runs'[r].tasks[e])
                           \/ runs'[r].tasks[e].pc \in {"cleanup", "verify"}
             /\ (Returns(r, e) /\ IOFailure(runs'[r].tasks[e])) =>
                  /\ ~runs'[r].tasks[e].cleanup_error
                        => TempPath(runs'[r].tasks[e].dest_path) \notin DOMAIN fs'
                  /\ SrcPath(e) \in DOMAIN fs'
                  /\ fs'[SrcPath(e)] = runs[r].pre[SrcPath(e)]]_vars

\* a copy failed with an I/O error, the handler removed the partial temporary
\* file and the move returned a failure with the source in place
C22_Witness ==
    \E r \in DOMAIN runs : \E e \in FileEntries(r) :
        /\ Task(r, e).pc = "done"
        /\ IOFailure(Task(r, e))
        /\ Task(r, e).why = "copy_error"
        /\ ~Task(r, e).cleanup_error
        /\ ~exists(TempPath(Task(r, e).dest_path))
        /\ exists(SrcPath(e))
        /\ fs[SrcPath(e)] = runs[r].pre[SrcPath(e)]

\* C23: under the conflict policy skip, when a file with the source's name
\* exists in the destination folder, process_single_file returns skipped and
\* changes nothing: the step that finds the conflict leaves every file and
\* folder as it is, and when the call returns the files on disk (the source,
\* the existing destination file, the rest of the destination folder) are
\* those of the moment of the call, with no temporary file.
C23_SkipChangesNothing ==
    [][\A r \in DOMAIN runs : \A e \in runs[r].entries :
          LET t == Task(r, e)
          IN (/\ Steps(r, e)
              /\ t.pc = "conflict"
              /\ t.conflict_resolution = "skip"
              /\ exists(t.dest_path)) =>
                 /\ runs'[r].tasks[e].pc = "done"
                 /\ runs'[r].tasks[e].result = "skipped"
                 /\ fs' = fs
                 /\ dirs' = dirs
                 /\ fs' = runs[r].pre
                 /\ \A p \in DOMAIN fs' : ~p.tmp]_vars

\* a call with the policy skip found report.pdf in the destination folder and
\* returned skipped, both files in place
C23_Witness ==
    \E r \in DOMAIN runs : \E e \in runs[r].entries :
        /\ Task(r, e).conflict_resolution = "skip"
        /\ Task(r, e).pc = "done"
        /\ Task(r, e).result = "skipped"
        /\ Task(r, e).why = "exists"
        /\ exists(SrcPath(e))
        /\ exists(join(Task(r, e).dest_dir, e))
        /\ fs = runs[r].pre

\* C24: after any sequence of profile operations (save, delete, selection,
\* load) current_profile names a profile of the profile table, so the lookup
\* of the current profile's rules never fails.
C24_CurrentProfileExists == current_profile \in DOMAIN profiles

\* step 6 of the task has chosen its final dest_path and the move is under way
Resolved(t) == t.pc \in {"copy", "verify", "mismatch", "move", "remove", "cleanup"}

\* C25: within one run under the rename policy no two workers resolve to the
\* same final destination path (and so to the same temporary path), and no
\* file a move of the run has put at its destination is replaced by a sibling
\* of the same batch.
C25_DistinctDestinations ==
    \A r \in DOMAIN runs : \A a, b \in runs[r].entries :
        /\ (a # b /\ Resolved(Task(r, a)) /\ Resolved(Task(r, b)))
              => Task(r, a).dest_path # Task(r, b).dest_path
        /\ (Active(r) /\ Task(r, a).result = "success")
              => /\ exists(Task(r, a).dest_path)
                 /\ sha256(fs[Task(r, a).dest_path]) = Task(r, a).original_hash

\* C26: under the rename policy a move never overwrites or deletes a file that
\* was in a destination folder before the run started, a file named like the
\* chosen destination followed by .tmp included: while the run is in
\* progress and after it, every such file is there with its content.
C26_DestinationFilesKept ==
    \A r \in DOMAIN runs : \A p \in DOMAIN runs[r].pre :
        p.dir # Root => (exists(p) /\ fs[p] = runs[r].pre[p])

\* C27: undo_last never overwrites a file that is at an original source path
\* when the undo runs: every file on disk before a move of the undo is on
\* disk after it, at some path, with its content.
C27_UndoOverwritesNothing ==
    [][(undo.active /\ undo' # undo) =>
          \A p \in DOMAIN fs : \E q \in DOMAIN fs' : fs'[q] = fs[p]]_vars

\* C28: every batch held in the undo ledger is non-empty: a run that moved
\* no file pushes nothing, and an undo_last takes the batch of the most recent
\* run that did move files.
C28_NoEmptyBatch ==
    [][/\ \A k \in 1..Len(undo_stack') : undo_stack'[k] # <<>>
       /\ \A r \in DOMAIN runs :
             (/\ runs[r].pc = "pool"
              /\ r \in DOMAIN runs'
              /\ runs'[r].pc = "returned"
              /\ runs[r].moved_files = <<>>) => undo_stack' = undo_stack
       /\ (~undo.active /\ undo'.active) =>
             /\ undo'.batch # <<>>
             /\ undo'.batch = undo_stack[Len(undo_stack)]]_vars

\* a run that found nothing to move has returned, and the undo after it
\* took the batch of the run before
C28_Witness ==
    \E r \in DOMAIN runs :
        /\ runs[r].pc = "returned"
        /\ runs[r].entries # {}
        /\ runs[r].moved_files = <<>>
        /\ undo.found = "batch"
        /\ undo.batch # <<>>

\* C29: whenever process_single_file ends without a success record for a
\* file, no copy of that file is at its final destination path; a failure to
\* delete the source after the rename does not leave the file at the source
\* and at the destination while it is absent from the undo batch.
C29_NoCopyWithoutSuccess ==
    \A r \in DOMAIN runs : \A e \in FileEntries(r) :
        LET t == Task(r, e)
        IN (t.pc = "done" /\ t.result # "success" /\ t.dest_path.dir # Root) =>
              ~(/\ exists(t.dest_path)
                /\ sha256(fs[t.dest_path]) = t.original_hash)

AllExited == \A n \in ThreadNames : threads[n].pc = "exited"

\* C30: shutdown ends the supervised threads: once on_closing has cleared
\* self.running and stop_all has set stop_event, TaskProcessor and Scheduler
\* each leave the loop of their target and the loop of their wrapper in the
\* end; after self.running is cleared no new turn of a target's loop is
\* begun and a wrapper that has ended never runs again; while stop_event is
\* not set, a wrapper whose target has ended (by an exception as well) calls
\* the target again.
C30_ShutdownEndsThreads ==
    /\ (~running /\ stop_event) ~> AllExited
    /\ [][\A n \in ThreadNames :
             /\ threads[n].pc = "exited" => threads'[n].pc = "exited"
             /\ (~running /\ threads'[n].pc = "body") => threads[n].pc = "body"
             /\ (threads[n].pc = "body" /\ threads'[n].error)
                   => threads'[n].pc = "while"
             /\ (threads[n].pc = "while" /\ ~stop_event /\ threads'[n] # threads[n])
                   => threads'[n].pc = "call"]_vars

\* a target raised an exception and was called again before the window was
\* closed; after the shutdown both threads have ended
C30_Witness ==
    /\ ~running
    /\ stop_event
    /\ AllExited
    /\ \E n \in ThreadNames : threads[n].restarts > 0

====
